---- MODULE Spec2Model ----
(***************************************************************************)
(* Model of the LogFile class of @mdaemon/logfile (src/src/index.ts, lines *)
(* 1-594): a buffered logger that appends entries to a date-named file,    *)
(* flushes on a timer, rolls over to a new file when the date changes and  *)
(* registers process shutdown hooks.                                       *)
(*                                                                         *)
(* The methods are operators over a state record s (the fields of the      *)
(* object, the file system, the process and the clock).  A method returns  *)
(* the SET of states it may leave: a file-system call has one outcome per  *)
(* way it can end (done, or an exception), and an exception in flight is   *)
(* the flag s.threw, which Bind propagates and the try/catch blocks clear. *)
(***************************************************************************)
EXTENDS Integers, Sequences, FiniteSets, TLC

VARIABLES
  \* fields of LogFile
  date, currentFile, previousFile, logs, dir, fileFormat, rolloverEnabled,
  logLevel, useServerTime, sinceFlush, bufferSize, pushInterval,
  rolloverInterval, isStarted, logToConsole, logStr, startLog, endLog,
  \* the file system
  dirs, files,
  \* the process: registered handler sets, exit status
  handlers, exitCode,
  \* the environment: the clock, whether the disk takes writes
  clock, disk,
  \* bookkeeping: log calls made, budgeted operations made, the last
  \* operation (with the flushSync() calls and the file switches it made), the
  \* calls whose entry was buffered, the calls whose entry was appended to a
  \* file
  calls, ops, ret, accepted, written,
  \* the arguments the logging calls of the behaviour pass
  args

vars == <<date, currentFile, previousFile, logs, dir, fileFormat,
          rolloverEnabled, logLevel, useServerTime, sinceFlush, bufferSize,
          pushInterval, rolloverInterval, isStarted, dirs, files, handlers,
          exitCode, clock, disk, calls, ops, ret, accepted, written,
          logToConsole, logStr, startLog, endLog, args>>

----------------------------------------------------------------------------
\* Bounds of the model.
\* Operations of a behaviour that count against the budget: an initialising
\* start(), a log() or critical() call, a setter call, a clock step, the
\* beginning of a disk outage.
MaxOps == 3
\* Calls of the logging methods in a behaviour that varies their arguments.
MaxCalls == 1
\* Characters of a message, arguments of a call.
MaxLen  == 2
MaxArgs == 2

\* enum LogLevel
DEBUG    == 0
INFO     == 1
WARNING  == 2
ERROR    == 3
CRITICAL == 4

BUFFER_SIZE    == 1000
BUFFER_TIMEOUT == 1000
maxBufferSize  == 16384

\* Values the model draws configuration and inputs from.
DefaultDir    == "./logs"
DefaultFormat == "log-%DATE%.log"
Dirs          == {DefaultDir, "./logs2"}
Formats       == {DefaultFormat, "app.log"}
Thresholds    == {INFO, ERROR}
CallLevels    == {INFO, ERROR}

\* The templates.  A text is the sequence of its pieces: a placeholder, a
\* character or a run of characters in which nothing is looked for.
DefaultLogStr   == <<"%DATE%", " ", "%TIME%", " | ", "%LEVEL%", " | ", "%MESSAGE%">>
LogStrs         == {DefaultLogStr, <<"%LEVEL%", ": ", "%MESSAGE%">>}
DefaultStartLog ==
  <<"-----------------------------------------\n", "------- Log Started: ",
    "%DATETIME%", "\n-----------------------------------------\n">>
StartLogs       == {DefaultStartLog, <<"start ", "%DATETIME%">>}
DefaultEndLog ==
  <<"-----------------------------------------\n", "------- Log Ended: ",
    "%DATETIME%", "\n-----------------------------------------\n">>
EndLogs         == {DefaultEndLog, <<"end ", "%DATETIME%">>}

\* The values passed to the logging methods: a string, an Error with its
\* message, an object with one string property.
Str(v) == [type |-> "string", v |-> v]
Err(v) == [type |-> "Error", v |-> v]
Obj(v) == [type |-> "Object", v |-> v]
DefaultArgs == <<Str(<<"test">>)>>

\* the characters of the messages: a letter, the three characters log()
\* removes, and the characters String.prototype.replace reads in a
\* replacement string
Chars == {"a", "\n", "\r", "\t", "$", "&"}
Texts(n) == UNION {[1..k -> Chars] : k \in 0..n}
Messages == Texts(MaxLen)
ArgValues == {Str(<<"a">>), Str(<<"$", "&">>), Err(<<"a">>), Obj(<<"\n">>)}
ArgLists == UNION {[1..k -> ArgValues] : k \in 0..MaxArgs}

Running == -1           \* exitCode while the process has not exited
NoDate  == 0            \* the empty date string
NoFile  == [fmt |-> "", date |-> NoDate]   \* the empty file name

\* the calls whose entry lines a sequence holds
EntryIds(seq) == {seq[i].id : i \in {j \in DOMAIN seq : seq[j].kind = "entry"}}

\* The clock: one step is half a day in a time zone west of Greenwich, so the
\* UTC date changes one step before the local date does.
GetDate(s) == 1 + (s.clock \div 2)
UTCDate(s) == 1 + ((s.clock + 1) \div 2)

\* fileFormat.replace("%DATE%", date)
Replace(fmt, d) ==
  IF fmt = "log-%DATE%.log" THEN [fmt |-> fmt, date |-> d]
  ELSE [fmt |-> fmt, date |-> NoDate]

\* file(): `${this.dir}/${this.currentFile}`
File(s) == [dir |-> s.dir, name |-> s.currentFile]

\* What a file holds: banners and entry lines.
StartBanner == [kind |-> "start", id |-> 0, level |-> 0, thr |-> 0, day |-> 0]
EndBanner   == [kind |-> "end", id |-> 0, level |-> 0, thr |-> 0, day |-> 0]

\* util.ts: the texts of the date and the time
getDate(s) == "2024-01-0" \o ToString(GetDate(s))
getTime(s) == "12:00:00"
getDateTime(s) == "2024-1-" \o ToString(GetDate(s)) \o " 12:00:00"

\* stringifyArgs: the stack of an Error, the JSON text of an object, any
\* other value as it is
Stack(v) == <<"Error", ": ">> \o v \o <<"\n", "    at <anonymous>">>
Escape(c) ==
  CASE c = "\n" -> "\\n" [] c = "\r" -> "\\r" [] c = "\t" -> "\\t" [] OTHER -> c
Stringify(v) == <<"{\"k\":\"">> \o [i \in DOMAIN v |-> Escape(v[i])] \o <<"\"}">>
stringifyArgs(arg) ==
  CASE arg.type = "Error" -> Stack(arg.v)
    [] arg.type = "Object" -> Stringify(arg.v)
    [] OTHER -> arg.v

\* Array.prototype.join
RECURSIVE Join(_, _)
Join(texts, sep) ==
  IF texts = <<>> THEN <<>>
  ELSE IF Len(texts) = 1 THEN texts[1]
  ELSE texts[1] \o <<sep>> \o Join(Tail(texts), sep)

\* message.replace(/\n|\r|\t/g, "")
Strip(message) == SelectSeq(message, LAMBDA c : c \notin {"\n", "\r", "\t"})

\* String.prototype.replace(pattern, replacement) with a string pattern: the
\* first occurrence is replaced, and in the replacement $$ stands for $, $&
\* for the matched text, $` for the text before it and $' for the text after
RECURSIVE Expand(_, _, _, _)
Expand(rep, matched, before, after) ==
  IF rep = <<>> THEN <<>>
  ELSE IF rep[1] = "$" /\ Len(rep) >= 2 /\ rep[2] \in {"$", "&", "`", "'"}
    THEN (CASE rep[2] = "$" -> <<"$">>
            [] rep[2] = "&" -> <<matched>>
            [] rep[2] = "`" -> before
            [] rep[2] = "'" -> after)
         \o Expand(SubSeq(rep, 3, Len(rep)), matched, before, after)
  ELSE <<rep[1]>> \o Expand(Tail(rep), matched, before, after)

StringReplace(text, pattern, rep) ==
  CHOOSE result \in
    {LET I == {i \in DOMAIN t : t[i] = pattern} IN
     IF I = {} THEN t
     ELSE LET i == CHOOSE j \in I : \A k \in I : j <= k
              before == SubSeq(t, 1, i - 1)
              after == SubSeq(t, i + 1, Len(t))
          IN before \o Expand(r, pattern, before, after) \o after
     : <<t, r>> \in {<<text, rep>>}} : TRUE

logLevelToString(level) ==
  CASE level = DEBUG -> "DEBUG" [] level = INFO -> "INFO"
    [] level = WARNING -> "WARNING" [] level = ERROR -> "ERROR"
    [] level = CRITICAL -> "CRITICAL" [] OTHER -> "UNKNOWN"

\* the line log() builds from the entry template
logThis(s, message, level) ==
  StringReplace(
    StringReplace(
      StringReplace(
        StringReplace(
          StringReplace(s.logStr, "%DATETIME%", <<getDateTime(s)>>),
          "%DATE%", <<getDate(s)>>),
        "%TIME%", <<getTime(s)>>),
      "%LEVEL%", <<logLevelToString(level)>>),
    "%MESSAGE%", Strip(message))

\* The line log() formats: the call's number, its level, the date in the
\* line and the text; thr records the threshold in force at the call.
Entry(s, message, level) ==
  [kind |-> "entry", id |-> s.calls, level |-> level, thr |-> s.logLevel,
   day |-> GetDate(s), line |-> logThis(s, message, level)]

\* log.length
RECURSIVE Width(_)
Width(text) == IF text = <<>> THEN 0 ELSE Len(text[1]) + Width(Tail(text))
LineLength(e) == Width(e.line)

----------------------------------------------------------------------------
\* Exceptions and sequencing.
Throw(s) == [s EXCEPT !.threw = TRUE, !.wfail = TRUE]

\* S; F : run F on every state S may leave unless an exception is in flight
Bind(S, F(_)) == UNION {IF s.threw THEN {s} ELSE F(s) : s \in S}

Return(s, r) == [s EXCEPT !.res = r]

----------------------------------------------------------------------------
\* The fs module.
\* A call that writes either is done or throws.  The disk may go down at a
\* write (the beginning of an outage) and come back at a later one.
Done(s)   == [s EXCEPT !.disk = "up"]
Failed(s) ==
  [s EXCEPT !.disk = "down", !.ops = IF s.disk = "up" THEN @ + 1 ELSE @,
            !.threw = TRUE, !.wfail = TRUE]
CanFail(s) == s.disk = "down" \/ s.ops < MaxOps

\* the path of the empty file name, `${dir}/`, is the directory
ExistsSync(s, p) ==
  IF p.name = NoFile THEN p.dir \in s.dirs ELSE p \in DOMAIN s.files

DirExistsSync(s, d) == d \in s.dirs

Put(f, p, content) ==
  [q \in DOMAIN f \cup {p} |-> IF q = p THEN content ELSE f[q]]

MkdirSync(s, d) ==
  {[Done(s) EXCEPT !.dirs = @ \cup {d}]} \cup (IF CanFail(s) THEN {Failed(s)} ELSE {})

\* a call of writeFileSync or appendFileSync is counted, whatever becomes of it
Attempt(s) == [s EXCEPT !.nwrite = @ + 1]

\* writeFileSync creates the file or replaces its content
WriteFileSync(s, p, data) ==
  LET c == Attempt(s) IN
  IF p.dir \notin c.dirs \/ p.name = NoFile THEN {Throw(c)}
  ELSE {[Done(c) EXCEPT !.files = Put(@, p, data)]}
         \cup (IF CanFail(c) THEN {Failed(c)} ELSE {})

\* appendFileSync creates the file or extends its content
AppendFileSync(s, p, data) ==
  LET c == Attempt(s) IN
  IF p.dir \notin c.dirs \/ p.name = NoFile THEN {Throw(c)}
  ELSE {[Done(c) EXCEPT !.files =
            Put(@, p, (IF p \in DOMAIN @ THEN @[p] ELSE <<>>) \o data),
                        !.written = @ \cup EntryIds(data)]}
         \cup (IF CanFail(c) THEN {Failed(c)} ELSE {})

----------------------------------------------------------------------------
\* The setters and getters of the configuration fields.
setLogLevel(s, level) == [s EXCEPT !.logLevel = level]
getLogLevel(s) == s.logLevel
setLogDir(s, d) == [s EXCEPT !.dir = d]
getLogDir(s) == s.dir
setFileFormat(s, fmt) == [s EXCEPT !.fileFormat = fmt]
getFileFormat(s) == s.fileFormat
setLogToConsole(s, b) == [s EXCEPT !.logToConsole = b]
getLogToConsole(s) == s.logToConsole
setLogStr(s, str) == [s EXCEPT !.logStr = str]
getLogStr(s) == s.logStr
setStartLog(s, str) == [s EXCEPT !.startLog = str]
getStartLog(s) == s.startLog
setEndLog(s, str) == [s EXCEPT !.endLog = str]
getEndLog(s) == s.endLog
\* a setRollover that arms or clears the rollover timer of a started logger
setRolloverAndTimer(s, rollover) ==
  [s EXCEPT !.rolloverEnabled = rollover,
            !.rolloverInterval = rollover /\ s.isStarted]
setRollover(s, rollover) == [s EXCEPT !.rolloverEnabled = rollover]
getRollover(s) == s.rolloverEnabled
setUseServerTime(s, b) == [s EXCEPT !.useServerTime = b]

----------------------------------------------------------------------------
\* pushLogs() that makes the write again when it has failed
PushLogsAgain(s) ==
  IF Len(s.logs) < 1 \/ s.currentFile = NoFile THEN {s}
  ELSE LET once(c) ==
             Bind(AppendFileSync(c, File(c), c.logs),
                  LAMBDA a : {[a EXCEPT !.logs = <<>>, !.bufferSize = 0,
                                        !.sinceFlush = 0]})
       IN UNION {IF t.threw THEN {[u EXCEPT !.threw = FALSE] :
                                    u \in once([t EXCEPT !.threw = FALSE])}
                            ELSE {t} : t \in once(s)}

\* pushLogs() that does not empty the buffer
PushLogsKeep(s) ==
  IF Len(s.logs) < 1 \/ s.currentFile = NoFile THEN {s}
  ELSE {[t EXCEPT !.threw = FALSE] :
          t \in Bind(AppendFileSync(s, File(s), s.logs),
                     LAMBDA a : {[a EXCEPT !.bufferSize = 0, !.sinceFlush = 0]})}

\* LogFile.pushLogs
PushLogs(s) ==
  IF Len(s.logs) < 1 \/ s.currentFile = NoFile THEN {s}
  ELSE {[t EXCEPT !.threw = FALSE] :
          t \in Bind(AppendFileSync(s, File(s), s.logs),
                     LAMBDA a : {[a EXCEPT !.logs = <<>>, !.bufferSize = 0,
                                           !.sinceFlush = 0]})}

\* flushSync() that leaves the byte estimate as it was
FlushSyncKeepsSize(s) ==
  LET c == [s EXCEPT !.nflush = @ + 1] IN
  IF Len(c.logs) < 1 \/ c.currentFile = NoFile THEN {c}
  ELSE {[t EXCEPT !.threw = FALSE] :
          t \in Bind(AppendFileSync(c, File(c), c.logs),
                     LAMBDA a : {[a EXCEPT !.logs = <<>>, !.sinceFlush = 0]})}

\* LogFile.flushSync
FlushSync(s) ==
  LET c == [s EXCEPT !.nflush = @ + 1] IN
  IF Len(c.logs) < 1 \/ c.currentFile = NoFile THEN {c}
  ELSE {[t EXCEPT !.threw = FALSE] :
          t \in Bind(AppendFileSync(c, File(c), c.logs),
                     LAMBDA a : {[a EXCEPT !.logs = <<>>, !.bufferSize = 0,
                                           !.sinceFlush = 0]})}

\* rollOver() that switches files whether or not rollover is enabled
RollOverRegardless(s) ==
  IF GetDate(s) = s.date THEN {s}
  ELSE LET a == [s EXCEPT !.date = GetDate(s)] IN
       Bind(AppendFileSync(a, File(a), <<EndBanner>>),
            LAMBDA b :
              LET c == [b EXCEPT !.previousFile = b.currentFile,
                                 !.currentFile = Replace(b.fileFormat, b.date),
                                 !.nroll = @ + 1]
              IN Bind(WriteFileSync(c, File(c), <<StartBanner>>), PushLogs))

\* rollOver() that leaves the buffer to the flush timer
RollOverNoFlush(s) ==
  IF GetDate(s) = s.date THEN {s}
  ELSE LET a == [s EXCEPT !.date = GetDate(s)] IN
       IF ~a.rolloverEnabled THEN {a}
       ELSE Bind(AppendFileSync(a, File(a), <<EndBanner>>),
                 LAMBDA b :
                   LET c == [b EXCEPT !.previousFile = b.currentFile,
                                      !.currentFile = Replace(b.fileFormat, b.date),
                                      !.nroll = @ + 1]
                   IN WriteFileSync(c, File(c), <<StartBanner>>))

\* rollOver() that records the name of the file it opens
RollOverRecordsNew(s) ==
  IF GetDate(s) = s.date THEN {s}
  ELSE LET a == [s EXCEPT !.date = GetDate(s)] IN
       IF ~a.rolloverEnabled THEN {a}
       ELSE Bind(AppendFileSync(a, File(a), <<EndBanner>>),
                 LAMBDA b :
                   LET c == [b EXCEPT !.currentFile = Replace(b.fileFormat, b.date),
                                      !.previousFile = Replace(b.fileFormat, b.date),
                                      !.nroll = @ + 1]
                   IN Bind(WriteFileSync(c, File(c), <<StartBanner>>), PushLogs))

\* LogFile.rollOver
RollOver(s) ==
  IF GetDate(s) = s.date THEN {s}
  ELSE LET a == [s EXCEPT !.date = GetDate(s)] IN
       IF ~a.rolloverEnabled THEN {a}
       ELSE Bind(AppendFileSync(a, File(a), <<EndBanner>>),
                 LAMBDA b :
                   LET c == [b EXCEPT !.previousFile = b.currentFile,
                                      !.currentFile = Replace(b.fileFormat, b.date),
                                      !.nroll = @ + 1]
                   IN Bind(WriteFileSync(c, File(c), <<StartBanner>>), PushLogs))

\* start() without the test of isStarted
StartAgain(s) ==
  Bind(IF ~DirExistsSync(s, s.dir) THEN MkdirSync(s, s.dir) ELSE {s},
       LAMBDA a :
         LET d == IF a.useServerTime THEN GetDate(a) ELSE UTCDate(a)
             b == [a EXCEPT !.date = d, !.currentFile = Replace(a.fileFormat, d)]
         IN Bind(IF ~ExistsSync(b, File(b))
                   THEN WriteFileSync(b, File(b), <<StartBanner>>)
                   ELSE AppendFileSync(b, File(b), <<StartBanner>>),
                 LAMBDA c :
                   {Return([c EXCEPT !.pushInterval = TRUE,
                                     !.rolloverInterval =
                                        IF c.rolloverEnabled THEN TRUE ELSE @,
                                     !.handlers = @ + 1,
                                     !.isStarted = TRUE],
                           ExistsSync(c, File(c)))}))

\* start() that writes the banner with writeFileSync whether or not the file
\* exists
StartTruncating(s) ==
  IF s.isStarted THEN {Return(s, ExistsSync(s, File(s)))}
  ELSE Bind(IF ~DirExistsSync(s, s.dir) THEN MkdirSync(s, s.dir) ELSE {s},
            LAMBDA a :
              LET d == IF a.useServerTime THEN GetDate(a) ELSE UTCDate(a)
                  b == [a EXCEPT !.date = d,
                                 !.currentFile = Replace(a.fileFormat, d)]
              IN Bind(WriteFileSync(b, File(b), <<StartBanner>>),
                      LAMBDA c :
                        {Return([c EXCEPT !.pushInterval = TRUE,
                                          !.rolloverInterval =
                                             IF c.rolloverEnabled THEN TRUE ELSE @,
                                          !.handlers = @ + 1,
                                          !.isStarted = TRUE],
                                ExistsSync(c, File(c)))}))

\* LogFile.start
Start(s) ==
  IF s.isStarted THEN {Return(s, ExistsSync(s, File(s)))}
  ELSE Bind(IF ~DirExistsSync(s, s.dir) THEN MkdirSync(s, s.dir) ELSE {s},
            LAMBDA a :
              LET d == IF a.useServerTime THEN GetDate(a) ELSE UTCDate(a)
                  b == [a EXCEPT !.date = d,
                                 !.currentFile = Replace(a.fileFormat, d)]
              IN Bind(IF ~ExistsSync(b, File(b))
                        THEN WriteFileSync(b, File(b), <<StartBanner>>)
                        ELSE AppendFileSync(b, File(b), <<StartBanner>>),
                      LAMBDA c :
                        {Return([c EXCEPT !.pushInterval = TRUE,
                                          !.rolloverInterval =
                                             IF c.rolloverEnabled THEN TRUE ELSE @,
                                          !.handlers = @ + 1,
                                          !.isStarted = TRUE],
                                ExistsSync(c, File(c)))}))

\* stop() without the test of isStarted
StopRegardless(s) ==
  LET a == [s EXCEPT !.pushInterval = FALSE, !.rolloverInterval = FALSE] IN
  IF ~DirExistsSync(a, a.dir) THEN {Return(a, TRUE)}
  ELSE IF ~ExistsSync(a, File(a)) THEN {Return(a, TRUE)}
  ELSE {IF t.threw
          THEN Return([t EXCEPT !.threw = FALSE], FALSE)
          ELSE Return([t EXCEPT !.isStarted = FALSE], TRUE)
        : t \in Bind(PushLogs(a),
                     LAMBDA b :
                       Bind(AppendFileSync(b, File(b), <<EndBanner>>),
                            LAMBDA c : {[c EXCEPT !.currentFile = NoFile]}))}

\* stop() that clears the timers only once the end banner is written
StopLateClear(s) ==
  IF ~s.isStarted THEN {Return(s, TRUE)}
  ELSE IF ~DirExistsSync(s, s.dir) THEN {Return(s, TRUE)}
  ELSE IF ~ExistsSync(s, File(s)) THEN {Return(s, TRUE)}
  ELSE {IF t.threw
          THEN Return([t EXCEPT !.threw = FALSE], FALSE)
          ELSE Return([t EXCEPT !.isStarted = FALSE, !.pushInterval = FALSE,
                                !.rolloverInterval = FALSE], TRUE)
        : t \in Bind(PushLogs(s),
                     LAMBDA b :
                       Bind(AppendFileSync(b, File(b), <<EndBanner>>),
                            LAMBDA c : {[c EXCEPT !.currentFile = NoFile]}))}

\* LogFile.stop
Stop(s) ==
  IF ~s.isStarted THEN {Return(s, TRUE)}
  ELSE LET a == [s EXCEPT !.pushInterval = FALSE, !.rolloverInterval = FALSE] IN
       IF ~DirExistsSync(a, a.dir) THEN {Return(a, TRUE)}
       ELSE IF ~ExistsSync(a, File(a)) THEN {Return(a, TRUE)}
       ELSE {IF t.threw
               THEN Return([t EXCEPT !.threw = FALSE], FALSE)
               ELSE Return([t EXCEPT !.isStarted = FALSE], TRUE)
             : t \in Bind(PushLogs(a),
                          LAMBDA b :
                            Bind(AppendFileSync(b, File(b), <<EndBanner>>),
                                 LAMBDA c : {[c EXCEPT !.currentFile = NoFile]}))}

\* addToLogs that flushes only past the cap of entries
AddToLogsOver(s, log) ==
  LET a == [s EXCEPT !.logs = Append(@, log),
                     !.bufferSize = @ + LineLength(log),
                     !.accepted = @ \cup {log.id}] IN
  IF \/ a.bufferSize >= maxBufferSize
     \/ Len(a.logs) > BUFFER_SIZE
     \/ a.sinceFlush >= BUFFER_TIMEOUT
    THEN PushLogs(a)
    ELSE {a}

\* addToLogs() that puts the new line at the head of the buffer
AddToLogsFirst(s, log) ==
  LET a == [s EXCEPT !.logs = <<log>> \o @,
                     !.bufferSize = @ + LineLength(log),
                     !.accepted = @ \cup {log.id}] IN
  IF \/ a.bufferSize >= maxBufferSize
     \/ Len(a.logs) >= BUFFER_SIZE
     \/ a.sinceFlush >= BUFFER_TIMEOUT
    THEN PushLogs(a)
    ELSE {a}

\* LogFile.addToLogs
AddToLogs(s, log) ==
  LET a == [s EXCEPT !.logs = Append(@, log),
                     !.bufferSize = @ + LineLength(log),
                     !.accepted = @ \cup {log.id}] IN
  IF \/ a.bufferSize >= maxBufferSize
     \/ Len(a.logs) >= BUFFER_SIZE
     \/ a.sinceFlush >= BUFFER_TIMEOUT
    THEN PushLogs(a)
    ELSE {a}

\* the threshold test with the comparison the wrong way round
AboveThreshold(s, level) == level > s.logLevel

\* the threshold test of LogFile.log
BelowThreshold(s, level) == level < s.logLevel

\* log() that returns at once below the threshold, without the rollover check
LogSkipsCheck(s, message, level) ==
  LET n == [s EXCEPT !.calls = @ + 1] IN
  {IF t.threw THEN Return([t EXCEPT !.threw = FALSE], FALSE) ELSE t :
     t \in Bind(IF n.currentFile = NoFile THEN Start(n) ELSE {n},
                LAMBDA a :
                  IF BelowThreshold(a, level)
                    THEN {Return(a, TRUE)}
                    ELSE Bind(UNION {AddToLogs(a, line) :
                                       line \in {Entry(a, message, level)}},
                              LAMBDA b :
                                Bind(RollOver(b), LAMBDA c : {Return(c, TRUE)})))}

\* LogFile.log
Log(s, message, level) ==
  LET n == [s EXCEPT !.calls = @ + 1] IN
  {IF t.threw THEN Return([t EXCEPT !.threw = FALSE], FALSE) ELSE t :
     t \in Bind(IF n.currentFile = NoFile THEN Start(n) ELSE {n},
                LAMBDA a :
                  IF BelowThreshold(a, level)
                    THEN Bind(RollOver(a), LAMBDA b : {Return(b, TRUE)})
                    ELSE Bind(UNION {AddToLogs(a, line) :
                                       line \in {Entry(a, message, level)}},
                              LAMBDA b :
                                Bind(RollOver(b), LAMBDA c : {Return(c, TRUE)})))}

\* critical() that leaves the flush to the timer
CriticalNoFlush(s, a) ==
  Bind(Log(s, Join([i \in DOMAIN a |-> stringifyArgs(a[i])], " "), CRITICAL),
       LAMBDA b : {Return(b, b.res)})

\* LogFile.critical
Critical(s, a) ==
  Bind(Log(s, Join([i \in DOMAIN a |-> stringifyArgs(a[i])], " "), CRITICAL),
       LAMBDA b : {Return(c, b.res) : c \in FlushSync(b)})

\* LogFile.debug, info, warning, warn, error
Debug(s, a) == Log(s, Join([i \in DOMAIN a |-> stringifyArgs(a[i])], " "), DEBUG)
Info(s, a) == Log(s, Join([i \in DOMAIN a |-> stringifyArgs(a[i])], " "), INFO)
\* a warning() that logs at the level of error()
WarningAsError(s, a) ==
  Log(s, Join([i \in DOMAIN a |-> stringifyArgs(a[i])], " "), ERROR)
Warning(s, a) ==
  Log(s, Join([i \in DOMAIN a |-> stringifyArgs(a[i])], " "), WARNING)
Warn(s, a) == Warning(s, a)
Error(s, a) == Log(s, Join([i \in DOMAIN a |-> stringifyArgs(a[i])], " "), ERROR)

----------------------------------------------------------------------------
\* The process hooks start() registers, once per completed start().
RECURSIVE Times(_, _)
Times(S, n) == IF n = 0 THEN S ELSE Times(Bind(S, PushLogs), n - 1)

\* process.exit(code): the 'exit' handlers run, then the process ends
ProcessExit(s, code) ==
  {[t EXCEPT !.exitCode = code] : t \in Times({s}, s.handlers)}

\* a signal handler that flushes and exits without stopping the logger
OnSignalNoStop(s) == Bind(PushLogs(s), LAMBDA a : ProcessExit(a, 0))

\* the SIGINT and SIGTERM handlers
OnSignal(s) ==
  Bind(PushLogs(s), LAMBDA a : Bind(Stop(a), LAMBDA b : ProcessExit(b, 0)))

\* the uncaughtException handler
OnUncaughtException(s) ==
  Bind(Critical(s, <<Str(<<"Uncaught Exception:">>), Err(<<"error">>)>>),
       LAMBDA a : Bind(PushLogs(a),
                       LAMBDA b : Bind(Stop(b), LAMBDA c : ProcessExit(c, 1))))

\* A timer callback: an exception it lets escape is an uncaught exception.
Callback(S) ==
  UNION {IF t.threw THEN OnUncaughtException([t EXCEPT !.threw = FALSE]) ELSE {t}
           : t \in S}

----------------------------------------------------------------------------
\* The state as a record, and back.
Cur ==
  [date |-> date, currentFile |-> currentFile, previousFile |-> previousFile,
   logs |-> logs, dir |-> dir, fileFormat |-> fileFormat,
   rolloverEnabled |-> rolloverEnabled, logLevel |-> logLevel,
   useServerTime |-> useServerTime, sinceFlush |-> sinceFlush,
   bufferSize |-> bufferSize, pushInterval |-> pushInterval,
   rolloverInterval |-> rolloverInterval, isStarted |-> isStarted,
   dirs |-> dirs, files |-> files, handlers |-> handlers,
   exitCode |-> exitCode, clock |-> clock, disk |-> disk,
   calls |-> calls, ops |-> ops, accepted |-> accepted, written |-> written,
   logToConsole |-> logToConsole, logStr |-> logStr, startLog |-> startLog,
   endLog |-> endLog, args |-> args,
   res |-> TRUE, threw |-> FALSE, wfail |-> FALSE, nflush |-> 0, nroll |-> 0,
   nwrite |-> 0]

Commit(t, op, level) ==
  /\ date' = t.date
  /\ currentFile' = t.currentFile
  /\ previousFile' = t.previousFile
  /\ logs' = t.logs
  /\ dir' = t.dir
  /\ fileFormat' = t.fileFormat
  /\ rolloverEnabled' = t.rolloverEnabled
  /\ logLevel' = t.logLevel
  /\ useServerTime' = t.useServerTime
  /\ sinceFlush' = t.sinceFlush
  /\ bufferSize' = t.bufferSize
  /\ pushInterval' = t.pushInterval
  /\ rolloverInterval' = t.rolloverInterval
  /\ isStarted' = t.isStarted
  /\ dirs' = t.dirs
  /\ files' = t.files
  /\ handlers' = t.handlers
  /\ exitCode' = t.exitCode
  /\ clock' = t.clock
  /\ disk' = t.disk
  /\ calls' = t.calls
  /\ ops' = t.ops
  /\ accepted' = t.accepted
  /\ written' = t.written
  /\ logToConsole' = t.logToConsole
  /\ logStr' = t.logStr
  /\ startLog' = t.startLog
  /\ endLog' = t.endLog
  /\ args' = t.args
  /\ ret' = [op |-> op, level |-> level, res |-> t.res, threw |-> t.threw,
             wfail |-> t.wfail, nflush |-> t.nflush, nroll |-> t.nroll,
             started |-> isStarted]

NoRet ==
  [op |-> "new", level |-> 0, res |-> TRUE, threw |-> FALSE, wfail |-> FALSE,
   nflush |-> 0, nroll |-> 0, started |-> FALSE]

\* start() initialises when the logger is not started
WouldStart(s) == ~s.isStarted

\* one operation of the budget
Spend(s, counted) == IF counted THEN [s EXCEPT !.ops = @ + 1] ELSE s

----------------------------------------------------------------------------
\* new LogFile(options) with options.rollover given, and the arguments a the
\* calls will pass
InitOptions(a, rollover) ==
  /\ date = NoDate
  /\ currentFile = NoFile
  /\ previousFile = NoFile
  /\ logs = <<>>
  /\ dir = DefaultDir
  /\ fileFormat = DefaultFormat
  /\ rolloverEnabled = rollover
  /\ logLevel = INFO
  /\ useServerTime = TRUE
  /\ logToConsole = FALSE
  /\ logStr = DefaultLogStr
  /\ startLog = DefaultStartLog
  /\ endLog = DefaultEndLog
  /\ sinceFlush = 0
  /\ bufferSize = 0
  /\ pushInterval = FALSE
  /\ rolloverInterval = FALSE
  /\ isStarted = FALSE
  /\ dirs = {}
  /\ files = <<>>
  /\ handlers = 0
  /\ exitCode = Running
  /\ clock = 1          \* an evening: the UTC date is already the next day
  /\ disk = "up"
  /\ calls = 0
  /\ ops = 0
  /\ accepted = {}
  /\ written = {}
  /\ args = a
  /\ ret = NoRet

\* new LogFile({}): options.rollover is undefined, rollover is enabled
InitWith(a) == InitOptions(a, TRUE)

Init == InitWith(DefaultArgs)

\* The application calls.
CallStart ==
  /\ exitCode = Running
  /\ WouldStart(Cur) => ops < MaxOps
  /\ \E t \in Start(Spend(Cur, WouldStart(Cur))) : Commit(t, "start", 0)

CallStop ==
  /\ exitCode = Running
  /\ \E t \in Stop(Cur) : Commit(t, "stop", 0)

CallLog ==
  /\ exitCode = Running
  /\ ops < MaxOps
  /\ Len(args) = 1 /\ args[1].type = "string"
  /\ \E level \in CallLevels :
       \E t \in Log(Spend(Cur, TRUE), args[1].v, level) : Commit(t, "log", level)

CallCritical ==
  /\ exitCode = Running
  /\ ops < MaxOps
  /\ \E t \in Critical(Spend(Cur, TRUE), args) : Commit(t, "critical", CRITICAL)

CallDebug ==
  /\ exitCode = Running
  /\ ops < MaxOps /\ calls < MaxCalls
  /\ \E t \in Debug(Spend(Cur, TRUE), args) : Commit(t, "debug", DEBUG)

CallInfo ==
  /\ exitCode = Running
  /\ ops < MaxOps /\ calls < MaxCalls
  /\ \E t \in Info(Spend(Cur, TRUE), args) : Commit(t, "info", INFO)

CallWarning ==
  /\ exitCode = Running
  /\ ops < MaxOps /\ calls < MaxCalls
  /\ \E t \in Warning(Spend(Cur, TRUE), args) : Commit(t, "warning", WARNING)

CallWarn ==
  /\ exitCode = Running
  /\ ops < MaxOps /\ calls < MaxCalls
  /\ \E t \in Warn(Spend(Cur, TRUE), args) : Commit(t, "warn", WARNING)

CallError ==
  /\ exitCode = Running
  /\ ops < MaxOps /\ calls < MaxCalls
  /\ \E t \in Error(Spend(Cur, TRUE), args) : Commit(t, "error", ERROR)

CallFlushSync ==
  /\ exitCode = Running
  /\ \E t \in FlushSync(Cur) : Commit(t, "flushSync", 0)

\* The setters.
SetLogLevel ==
  /\ exitCode = Running /\ ops < MaxOps
  /\ \E v \in Thresholds \ {logLevel} :
       Commit(setLogLevel(Spend(Cur, TRUE), v), "setLogLevel", 0)

SetLogDir ==
  /\ exitCode = Running /\ ops < MaxOps
  /\ \E v \in Dirs \ {dir} :
       Commit(setLogDir(Spend(Cur, TRUE), v), "setLogDir", 0)

SetFileFormat ==
  /\ exitCode = Running /\ ops < MaxOps
  /\ \E v \in Formats \ {fileFormat} :
       Commit(setFileFormat(Spend(Cur, TRUE), v), "setFileFormat", 0)

SetRollover ==
  /\ exitCode = Running /\ ops < MaxOps
  /\ \E v \in BOOLEAN \ {rolloverEnabled} :
       Commit(setRollover(Spend(Cur, TRUE), v), "setRollover", 0)

SetUseServerTime ==
  /\ exitCode = Running /\ ops < MaxOps
  /\ \E v \in BOOLEAN \ {useServerTime} :
       Commit(setUseServerTime(Spend(Cur, TRUE), v), "setUseServerTime", 0)

\* The timers start() arms.
SetLogToConsole ==
  /\ exitCode = Running /\ ops < MaxOps
  /\ \E v \in BOOLEAN \ {logToConsole} :
       Commit(setLogToConsole(Spend(Cur, TRUE), v), "setLogToConsole", 0)

SetLogStr ==
  /\ exitCode = Running /\ ops < MaxOps
  /\ \E v \in LogStrs \ {logStr} :
       Commit(setLogStr(Spend(Cur, TRUE), v), "setLogStr", 0)

SetStartLog ==
  /\ exitCode = Running /\ ops < MaxOps
  /\ \E v \in StartLogs \ {startLog} :
       Commit(setStartLog(Spend(Cur, TRUE), v), "setStartLog", 0)

SetEndLog ==
  /\ exitCode = Running /\ ops < MaxOps
  /\ \E v \in EndLogs \ {endLog} :
       Commit(setEndLog(Spend(Cur, TRUE), v), "setEndLog", 0)

FlushTimer ==
  /\ exitCode = Running
  /\ pushInterval
  /\ \E t \in Callback(PushLogs(Cur)) : Commit(t, "flushTimer", 0)

RolloverTimer ==
  /\ exitCode = Running
  /\ rolloverInterval
  /\ \E t \in Callback(RollOver(Cur)) : Commit(t, "rolloverTimer", 0)

\* The process events.
EmitExit ==
  /\ exitCode = Running
  /\ \E t \in ProcessExit(Cur, 0) : Commit(t, "exit", 0)

EmitSignal ==
  /\ exitCode = Running
  /\ handlers > 0
  /\ \E t \in OnSignal(Cur) : Commit(t, "signal", 0)

EmitUncaughtException ==
  /\ exitCode = Running
  /\ handlers > 0
  /\ ops < MaxOps
  /\ \E t \in OnUncaughtException(Spend(Cur, TRUE)) :
       Commit(t, "uncaughtException", CRITICAL)

\* The environment: half a day passes.
ClockStep ==
  /\ exitCode = Running
  /\ ops < MaxOps
  /\ Commit([Spend(Cur, TRUE) EXCEPT !.clock = @ + 1], "clock", 0)

\* BUFFER_TIMEOUT ms have passed since lastFlushTime
Elapse ==
  /\ exitCode = Running
  /\ sinceFlush < BUFFER_TIMEOUT
  /\ Commit([Cur EXCEPT !.sinceFlush = BUFFER_TIMEOUT], "elapse", 0)

Next ==
  \/ CallStart \/ CallStop \/ CallLog \/ CallCritical \/ CallFlushSync
  \/ SetLogLevel \/ SetLogDir \/ SetFileFormat \/ SetRollover \/ SetUseServerTime
  \/ FlushTimer \/ RolloverTimer
  \/ EmitExit \/ EmitSignal \/ EmitUncaughtException
  \/ ClockStep \/ Elapse

Spec == Init /\ [][Next]_vars

\* The logger under reconfiguration: every setter, between the calls that
\* start it, fill its buffer, flush it and stop it.
ConfigNext ==
  \/ SetLogLevel \/ SetLogDir \/ SetFileFormat \/ SetLogToConsole
  \/ SetLogStr \/ SetStartLog \/ SetEndLog \/ SetRollover \/ SetUseServerTime
  \/ CallStart \/ CallLog \/ CallStop \/ FlushTimer

ConfigSpec == Init /\ [][ConfigNext]_vars

\* log() on a message drawn from Messages: a behaviour passes the same
\* message to every call.
FormatInit == \E m \in Messages : InitWith(<<Str(m)>>)
FormatNext == CallLog \/ FlushTimer

FormatSpec == FormatInit /\ [][FormatNext]_vars

\* The methods that take any arguments, on arguments drawn from ArgLists.
ArgsInit == \E a \in ArgLists : InitWith(a)
ArgsNext ==
  \/ CallDebug \/ CallInfo \/ CallWarning \/ CallWarn \/ CallError
  \/ CallCritical \/ FlushTimer

ArgsSpec == ArgsInit /\ [][ArgsNext]_vars

\* The logger with a buffer near its caps.  A behaviour begins in the state
\* that new LogFile({logStr, logLevel}), start() and n log() calls at ERROR
\* within one flush interval lead to when every write is made: the state is
\* computed with Start and Log.
New(str, level) ==
  [date |-> NoDate, currentFile |-> NoFile, previousFile |-> NoFile,
   logs |-> <<>>, dir |-> DefaultDir, fileFormat |-> DefaultFormat,
   rolloverEnabled |-> TRUE, logLevel |-> level, useServerTime |-> TRUE,
   sinceFlush |-> 0, bufferSize |-> 0, pushInterval |-> FALSE,
   rolloverInterval |-> FALSE, isStarted |-> FALSE, dirs |-> {},
   files |-> <<>>, handlers |-> 0, exitCode |-> Running, clock |-> 1,
   disk |-> "up", calls |-> 0, ops |-> 0, accepted |-> {}, written |-> {},
   logToConsole |-> FALSE, logStr |-> str, startLog |-> DefaultStartLog,
   endLog |-> DefaultEndLog, args |-> DefaultArgs,
   res |-> TRUE, threw |-> FALSE, wfail |-> FALSE, nflush |-> 0, nroll |-> 0,
   nwrite |-> 0]

\* the state a call leaves when every write is made
Made(S) == CHOOSE t \in S : ~t.wfail

\* n log() calls, one after the other
RECURSIVE Fill(_, _)
Fill(s, n) ==
  IF n = 0 THEN s
  ELSE IF n = 1 THEN Made(Log(s, DefaultArgs[1].v, ERROR))
  ELSE CHOOSE t \in {Fill(u, n - (n \div 2)) : u \in {Fill(s, n \div 2)}} : TRUE

\* the numbers of calls: none, and as many as the caps allow before the call
\* that reaches the cap of entries, or the cap of bytes with the default
\* template
Fills ==
  {0, BUFFER_SIZE - 1,
   (maxBufferSize - 1) \div
     Width(logThis(New(DefaultLogStr, INFO), DefaultArgs[1].v, ERROR))}

StateIs(t) ==
  /\ date = t.date
  /\ currentFile = t.currentFile
  /\ previousFile = t.previousFile
  /\ logs = t.logs
  /\ dir = t.dir
  /\ fileFormat = t.fileFormat
  /\ rolloverEnabled = t.rolloverEnabled
  /\ logLevel = t.logLevel
  /\ useServerTime = t.useServerTime
  /\ sinceFlush = t.sinceFlush
  /\ bufferSize = t.bufferSize
  /\ pushInterval = t.pushInterval
  /\ rolloverInterval = t.rolloverInterval
  /\ isStarted = t.isStarted
  /\ dirs = t.dirs
  /\ files = t.files
  /\ handlers = t.handlers
  /\ exitCode = t.exitCode
  /\ clock = t.clock
  /\ disk = t.disk
  /\ calls = t.calls
  /\ ops = t.ops
  /\ accepted = t.accepted
  /\ written = t.written
  /\ logToConsole = t.logToConsole
  /\ logStr = t.logStr
  /\ startLog = t.startLog
  /\ endLog = t.endLog
  /\ args = t.args
  /\ ret = NoRet

BufferInit ==
  \E str \in LogStrs, level \in Thresholds, n \in Fills :
    \E t \in {Fill(Made(Start(New(str, level))), n)} : StateIs(t)

BufferNext ==
  \/ CallLog \/ CallFlushSync
  \/ ClockStep \/ Elapse

BufferSpec == BufferInit /\ [][BufferNext]_vars

\* The started logger and setFileFormat() on any string, the empty one
\* included: the setter stores what it is given.
AnyFormats == Formats \cup {""}

SetAnyFileFormat ==
  /\ exitCode = Running /\ ops < MaxOps
  /\ \E v \in AnyFormats \ {fileFormat} :
       Commit(setFileFormat(Spend(Cur, TRUE), v), "setFileFormat", 0)

NameInit ==
  \E t \in {Made(Start(New(DefaultLogStr, INFO)))} : StateIs(t)

NameNext ==
  \/ SetAnyFileFormat
  \/ CallStart \/ CallStop \/ CallLog
  \/ RolloverTimer
  \/ ClockStep

NameSpec == NameInit /\ [][NameNext]_vars

\* The timers are intervals of the event loop: an armed timer whose callback
\* would change something is eventually run.
FairSpec == Spec /\ WF_vars(FlushTimer) /\ WF_vars(RolloverTimer)

\* The logger constructed with either value of options.rollover, under the
\* same fairness of the timers.
OptionsInit == \E rollover \in BOOLEAN : InitOptions(DefaultArgs, rollover)

OptionsSpec ==
  OptionsInit /\ [][Next]_vars /\ WF_vars(FlushTimer) /\ WF_vars(RolloverTimer)

----------------------------------------------------------------------------
\* Vocabulary of the properties.
Range(seq) == {seq[i] : i \in DOMAIN seq}

\* every line some file of f holds
OnDisk(f) == UNION {Range(f[p]) : p \in DOMAIN f}

\* the lines of p in f, none when p does not exist
Content(f, p) == IF p \in DOMAIN f THEN f[p] ELSE <<>>

IsPrefix(a, b) == Len(a) <= Len(b) /\ SubSeq(b, 1, Len(a)) = a

\* the entry lines in the buffer or in a file
EntryLines == {e \in Range(logs) \cup OnDisk(files) : e.kind = "entry"}

----------------------------------------------------------------------------
\* C1: on a started logger every accepted log() call is eventually appended
\* to a log file, the timers being fair, unless a write fails or the process
\* exits; no further call is needed.
C1_EventuallyWritten ==
  \A id \in 1..MaxOps :
    (isStarted /\ id \in accepted)
      ~> (id \in written \/ ret.wfail \/ disk = "down" \/ exitCode # Running)

\* C2: a log() call below the threshold in force at the call leaves no entry
\* in the buffer or in any file, then or later: every entry line there is was
\* at or above the threshold of its call, and a call below it is not accepted.
C2_BelowThresholdNeverStored ==
  /\ \A e \in EntryLines : e.level >= e.thr
  /\ (ret.op = "log" /\ ret.level < logLevel) =>
       calls \notin accepted \cup written

\* a log() call below the threshold has returned true on a logger that holds
\* accepted entries
C2_Witness ==
  /\ ret.op = "log" /\ ret.level < logLevel /\ ret.res /\ ~ret.threw
  /\ isStarted
  /\ accepted # {}

\* C3: with rollover enabled and the default configuration, of two entries
\* on disk whose calls were made on different dates the later one is in the
\* file of its own date, not in the old file, and that file begins with a
\* start banner (stated when a log() call has returned true without a failed
\* write).
C3_DateChangeSplitsFiles ==
  (/\ rolloverEnabled /\ useServerTime /\ fileFormat = DefaultFormat
   /\ dir = DefaultDir
   /\ ret.op = "log" /\ ret.res /\ ~ret.wfail) =>
    \A p, q \in DOMAIN files :
      \A i \in DOMAIN files[p], j \in DOMAIN files[q] :
        (/\ files[p][i].kind = "entry" /\ files[q][j].kind = "entry"
         /\ files[p][i].id < files[q][j].id
         /\ files[p][i].day < files[q][j].day) =>
          /\ q.name = Replace(DefaultFormat, files[q][j].day)
          /\ files[q][1] = StartBanner

IsBanner(x) == x.kind # "entry"

\* C4: on a started logger with rollover disabled the rollover check only
\* updates the tracked date, and a log() or critical() call, whatever the
\* date, keeps the current and the previous file name, creates or changes no
\* file but the current one, writes no banner and appends what it writes to
\* the current file.
C4_NoSwitchWhenDisabled ==
  (isStarted /\ ~rolloverEnabled) =>
    /\ RollOver(Cur) = {[Cur EXCEPT !.date = GetDate(Cur)]}
    /\ \A t \in Critical(Cur, args) \cup UNION {Log(Cur, args[1].v, l) : l \in CallLevels} :
         /\ t.currentFile = currentFile
         /\ t.previousFile = previousFile
         /\ t.date \in {date, GetDate(Cur)}
         /\ \A p \in DOMAIN t.files \ {File(Cur)} :
              p \in DOMAIN files /\ t.files[p] = files[p]
         /\ IsPrefix(Content(files, File(Cur)), Content(t.files, File(Cur)))
         /\ SelectSeq(Content(t.files, File(Cur)), IsBanner)
              = SelectSeq(Content(files, File(Cur)), IsBanner)
         /\ t.written \ written \subseteq EntryIds(Content(t.files, File(Cur)))

\* the rollover timer has run after a date change with rollover disabled: the
\* tracked date is the new one, the current file is still the old one
C4_Witness ==
  /\ ret.op = "rolloverTimer"
  /\ isStarted /\ ~rolloverEnabled
  /\ date = GetDate(Cur)
  /\ currentFile = Replace(DefaultFormat, date - 1)
  /\ [dir |-> dir, name |-> Replace(DefaultFormat, date)] \notin DOMAIN files

\* C5: no step loses content of a log file: a file that exists still exists
\* after the step and its content then begins with its content before (stated
\* for the files whose name carries a date).
C5_ContentNeverLost ==
  [][\A p \in DOMAIN files :
       p.name.fmt = DefaultFormat =>
         p \in DOMAIN files' /\ IsPrefix(files[p], files'[p])]_vars

\* C7: when stop() called on a started logger returns true, the logger is no
\* longer started and its current file name is empty.
C7_StopTrueMeansStopped ==
  (ret.op = "stop" /\ ret.started /\ ret.res /\ ~ret.threw) =>
    (~isStarted /\ currentFile = NoFile)

\* C10: no call of start(), stop(), flushSync() or log() ends with an
\* exception.
C10_NeverThrows ==
  ret.op \in {"start", "stop", "flushSync", "log"} => ~ret.threw

\* C6 as the specification states it: after critical() or flushSync() has
\* returned on a started logger without a failed write, the buffer is empty,
\* every accepted entry is in the current log file, and critical() has called
\* flushSync() once (stated for the default configuration).
C6_FlushedToCurrentFile ==
  (/\ ret.op \in {"critical", "flushSync"} /\ ret.started /\ ~ret.wfail
   /\ dir = DefaultDir /\ fileFormat = DefaultFormat /\ useServerTime
   /\ rolloverEnabled) =>
    /\ logs = <<>>
    /\ accepted \subseteq EntryIds(Content(files, File(Cur)))
    /\ ret.op = "critical" => ret.nflush = 1

\* C6: after critical() or flushSync() has returned on a started logger
\* without a failed write, the buffer is empty, every accepted entry has been
\* appended to a log file (the current one of the time of its flush, which a
\* rollover may have replaced since), and critical() has called flushSync()
\* once.
C6_FlushedOnReturn ==
  (ret.op \in {"critical", "flushSync"} /\ ret.started /\ ~ret.wfail) =>
    /\ logs = <<>>
    /\ bufferSize = 0
    /\ accepted \subseteq written
    /\ ret.op = "critical" => (ret.nflush = 1 /\ calls \in written)

\* critical() has returned on a started logger that held an earlier entry,
\* and both are written
C6_Witness ==
  /\ ret.op = "critical" /\ ret.started /\ ~ret.wfail /\ ret.res
  /\ calls \in written
  /\ Cardinality(accepted) >= 2

\* the hooks can run: the logger is started, its current file exists and the
\* process has not exited
HooksArmed ==
  isStarted /\ handlers > 0 /\ File(Cur) \in DOMAIN files /\ exitCode = Running

\* the current file with x appended, every other file as it is
Appended(x) == Put(files, File(Cur), Content(files, File(Cur)) \o x)

C9_CriticalAheadOfEndBanner ==
  (/\ ret.op = "uncaughtException" /\ ret.started /\ ~ret.wfail
   /\ dir = DefaultDir /\ fileFormat = DefaultFormat /\ useServerTime
   /\ rolloverEnabled) =>
    /\ exitCode = 1 /\ ~isStarted
    /\ LET c == Content(files, [dir |-> dir, name |-> Replace(fileFormat, date)])
       IN /\ Len(c) > 0 /\ c[Len(c)] = EndBanner
          /\ \E i \in 1..(Len(c) - 1) :
               /\ c[i].kind = "entry" /\ c[i].id = calls
               /\ c[i].level = CRITICAL

----------------------------------------------------------------------------
\* everything but the record of the last operation
allButRet ==
  <<date, currentFile, previousFile, logs, dir, fileFormat, rolloverEnabled,
    logLevel, useServerTime, sinceFlush, bufferSize, pushInterval,
    rolloverInterval, isStarted, dirs, files, handlers, exitCode, clock, disk,
    calls, ops, accepted, written, logToConsole, logStr, startLog, endLog,
    args>>

\* C11: start() on a started logger changes nothing (no directory, no
\* banner, no timer, no handler, no field) and returns whether the current
\* file exists.
C11_StartWhenStartedNoOp ==
  [][(ret'.op = "start" /\ isStarted) =>
       /\ UNCHANGED allButRet
       /\ ~ret'.threw /\ ~ret'.wfail
       /\ ret'.res = (File(Cur) \in DOMAIN files)]_vars

\* start() has been called on a started logger: one set of handlers, one
\* start banner, the result true
C11_Witness ==
  /\ ret.op = "start" /\ ret.started /\ ret.res
  /\ isStarted /\ handlers = 1 /\ pushInterval
  /\ Content(files, File(Cur)) = <<StartBanner>>

\* C12: stop() on a logger that is not started returns true and changes
\* nothing: no write, no timer cancelled, no field changed.
C12_StopWhenStoppedNoOp ==
  [][(ret'.op = "stop" /\ ~isStarted) =>
       /\ UNCHANGED allButRet
       /\ ret'.res /\ ~ret'.threw /\ ~ret'.wfail]_vars

\* stop() has been called on a logger already stopped: its file holds one
\* end banner
C12_Witness ==
  /\ ret.op = "stop" /\ ~ret.started /\ ret.res
  /\ ~isStarted /\ handlers = 1
  /\ \E p \in DOMAIN files : files[p] = <<StartBanner, EndBanner>>

\* C13: a step in which stop() returns, with any result, leaves neither
\* timer armed, and stop() lets no exception out; a step arms a timer only
\* when it starts the logger, so that no timer callback runs from a stop()
\* to the next start() that starts the logger.
C13_StopDisarmsTimers ==
  [][/\ ret'.op = "stop" =>
          (~pushInterval' /\ ~rolloverInterval' /\ ~ret'.threw)
     /\ ((pushInterval' /\ ~pushInterval)
           \/ (rolloverInterval' /\ ~rolloverInterval)) =>
          (isStarted' /\ ~isStarted)
     /\ ret'.op \in {"flushTimer", "rolloverTimer"} =>
          (pushInterval \/ rolloverInterval)]_vars

\* stop() has returned false on a started logger: the end banner could not
\* be written, the logger is still started, the timers are cleared
C13_Witness ==
  /\ ret.op = "stop" /\ ret.started /\ ~ret.res
  /\ isStarted /\ ~pushInterval /\ ~rolloverInterval

\* C15: start() on a logger that is not started changes no file but the one
\* it resolves; that file gets the start banner after the content it had,
\* and holds the banner alone when it did not exist.
C15_StartKeepsContent ==
  ~isStarted =>
    \A t \in Start(Cur) :
      LET p == [dir |-> dir,
                name |-> Replace(fileFormat, IF useServerTime THEN GetDate(Cur)
                                                              ELSE UTCDate(Cur))]
      IN /\ DOMAIN t.files \subseteq DOMAIN files \cup {p}
         /\ \A q \in DOMAIN files \ {p} :
              q \in DOMAIN t.files /\ t.files[q] = files[q]
         /\ t.threw => t.files = files
         /\ ~t.threw => t.files[p] = Content(files, p) \o <<StartBanner>>

\* a restart on the same day: the file holds what it held, then the new
\* start banner
C15_Witness ==
  /\ ret.op = "start" /\ ~ret.started /\ ~ret.threw
  /\ isStarted
  /\ Content(files, File(Cur)) = <<StartBanner, EndBanner, StartBanner>>

\* the file the last rollover sealed
Sealed == [dir |-> dir, name |-> previousFile]

\* C14: a file sealed by a rollover receives nothing further: while the
\* logger stays started, the file the last rollover sealed, no longer the
\* current one, keeps the content it was sealed with through every step in
\* which no write fails.
C14_SealedFileReceivesNothing ==
  [][(/\ previousFile # NoFile /\ previousFile # currentFile /\ isStarted
      /\ Sealed \in DOMAIN files
      /\ disk = "up" /\ disk' = "up" /\ ~ret'.wfail /\ ~ret'.threw) =>
       (Sealed \in DOMAIN files' /\ files'[Sealed] = files[Sealed])]_vars

\* C16: on a started logger with entries in the buffer and its directory
\* in place, after setLogDir or setFileFormat with any value the next flush,
\* unless the disk fails, appends the buffered entries to the file that was
\* current before the setter was called.
C16_BufferedEntriesKeepTheirFile ==
  (/\ isStarted /\ logs # <<>> /\ disk = "up"
   /\ currentFile # NoFile /\ DirExistsSync(Cur, dir)) =>
    \A t \in UNION ({PushLogs(setLogDir(Cur, d)) : d \in Dirs}
                      \cup {PushLogs(setFileFormat(Cur, f)) : f \in Formats}) :
      t.disk = "up" =>
        Content(t.files, File(Cur)) = Content(files, File(Cur)) \o logs

\* C20: with rollover enabled, the default file-name format and the local
\* time source, every entry line in a file was logged on the date the file
\* is named for.
C20_EntriesInTheFileOfTheirDate ==
  (rolloverEnabled /\ fileFormat = DefaultFormat /\ useServerTime
     /\ dir = DefaultDir /\ disk = "up" /\ ~ret.wfail) =>
    \A p \in DOMAIN files :
      \A i \in DOMAIN files[p] :
        files[p][i].kind = "entry" => files[p][i].day = p.name.date

\* the fields of the logger, the file system and the process that a call
\* on state s left as they were, apart from the fields in except
Kept(s, t, except) == \A k \in DOMAIN s \ except : t[k] = s[k]

\* C19: for each configuration field (directory, file-name format, level,
\* console echo, entry template, start banner, end banner, rollover flag) the
\* getter after the setter returns the value set, and the setter changes its
\* own field only: no file, buffer, file name, date, timer or flag changes.
C19_SetThenGetAndFrame ==
  /\ \A v \in Dirs :
       getLogDir(setLogDir(Cur, v)) = v /\ Kept(Cur, setLogDir(Cur, v), {"dir"})
  /\ \A v \in Formats :
       /\ getFileFormat(setFileFormat(Cur, v)) = v
       /\ Kept(Cur, setFileFormat(Cur, v), {"fileFormat"})
  /\ \A v \in DEBUG..CRITICAL :
       /\ getLogLevel(setLogLevel(Cur, v)) = v
       /\ Kept(Cur, setLogLevel(Cur, v), {"logLevel"})
  /\ \A v \in BOOLEAN :
       /\ getLogToConsole(setLogToConsole(Cur, v)) = v
       /\ Kept(Cur, setLogToConsole(Cur, v), {"logToConsole"})
  /\ \A v \in LogStrs :
       getLogStr(setLogStr(Cur, v)) = v /\ Kept(Cur, setLogStr(Cur, v), {"logStr"})
  /\ \A v \in StartLogs :
       /\ getStartLog(setStartLog(Cur, v)) = v
       /\ Kept(Cur, setStartLog(Cur, v), {"startLog"})
  /\ \A v \in EndLogs :
       getEndLog(setEndLog(Cur, v)) = v /\ Kept(Cur, setEndLog(Cur, v), {"endLog"})
  /\ \A v \in BOOLEAN :
       /\ getRollover(setRollover(Cur, v)) = v
       /\ Kept(Cur, setRollover(Cur, v), {"rolloverEnabled"})

\* setRollover(false) has been called on a started logger with an entry in
\* its buffer: the entry is still buffered, the rollover timer still armed
C19_Witness ==
  /\ ret.op = "setRollover" /\ ~rolloverEnabled
  /\ isStarted /\ rolloverInterval /\ pushInterval
  /\ logs # <<>> /\ currentFile # NoFile

\* the entry lines the files hold
LinesOnDisk == {e \in OnDisk(files) : e.kind = "entry"}

\* C17: with the default entry template, when the calls pass one string,
\* after a log() call or a timer flush every entry line of a log() call in a
\* file is the date, the time, the level name and the message without its
\* newline, carriage-return and tab characters, every other character of the
\* message as it was passed.
C17_LineKeepsTheMessage ==
  (/\ logStr = DefaultLogStr /\ Len(args) = 1 /\ args[1].type = "string"
   /\ ret.op \in {"log", "flushTimer"}) =>
    \A e \in {l \in LinesOnDisk : l.level \in CallLevels} :
      e.line = <<"2024-01-0" \o ToString(e.day), " ", "12:00:00", " | ",
                 logLevelToString(e.level), " | ">>
               \o SelectSeq(args[1].v, LAMBDA c : c \notin {"\n", "\r", "\t"})

\* where the k-th of the texts begins in their join
RECURSIVE Offset(_, _)
Offset(texts, k) ==
  IF k = 1 THEN 0 ELSE Offset(texts, k - 1) + Len(texts[k - 1]) + 1

\* m is the texts in their order with one space between neighbours
JoinedBySpaces(m, texts) ==
  IF texts = <<>> THEN m = <<>>
  ELSE /\ Len(m) = Offset(texts, Len(texts)) + Len(texts[Len(texts)])
       /\ \A k \in DOMAIN texts :
            /\ SubSeq(m, Offset(texts, k) + 1, Offset(texts, k) + Len(texts[k]))
                 = texts[k]
            /\ k > 1 => m[Offset(texts, k)] = " "

C21_FlushedBeforeTheSwitch ==
  (/\ isStarted /\ rolloverEnabled /\ fileFormat = DefaultFormat
   /\ File(Cur) \in DOMAIN files) =>
    \A t \in RollOver(Cur) :
      (t.nroll > 0 /\ ~t.wfail) =>
        /\ Content(t.files, File(Cur))
             = Content(files, File(Cur)) \o logs \o <<EndBanner>>
        /\ t.logs = <<>>

\* C22: when an operation whose rollover check switched files has returned
\* without a failed write, the buffer is empty and every accepted entry has
\* been appended to a file: the rollover made the flush in the same step,
\* no flush-timer tick was needed.
C22_RolloverFlushes ==
  (ret.nroll > 0 /\ ~ret.wfail) =>
    (logs = <<>> /\ bufferSize = 0 /\ accepted \subseteq written)

\* the rollover timer has switched files with an entry in the buffer: the new
\* file holds its start banner and the entry
C22_Witness ==
  /\ ret.op = "rolloverTimer" /\ ret.nroll = 1 /\ ~ret.wfail
  /\ previousFile # currentFile
  /\ Len(Content(files, File(Cur))) = 2
  /\ files[File(Cur)][1] = StartBanner /\ files[File(Cur)][2].kind = "entry"
  /\ logs = <<>>

\* C23: a rollover check made when the date just computed is the tracked
\* date changes nothing and writes nothing; an operation switches files at
\* most once, only when it begins with a tracked date that is not the date
\* of its day, and it leaves the date of the day tracked: the checks that
\* follow are no-ops until the date changes, so there is at most one rollover
\* for a date change however many ticks and log() calls run the check.
C23_OneRolloverPerDateChange ==
  [][/\ date = GetDate(Cur) => RollOver(Cur) = {Cur}
     /\ ret'.nroll <= 1
     /\ ret'.nroll > 0 =>
          (date # GetDate(Cur) /\ date' = GetDate([clock |-> clock']))]_vars

\* C24: whatever step computes the tracked date takes it from the
\* configured time source, the local date when useServerTime is true and the
\* UTC date when it is false; with useServerTime false an operation switches
\* files only when it begins with a current file and a tracked date that is
\* not the UTC date.
C24_DateFromTheConfiguredSource ==
  [][/\ date' # date =>
          date' = IF useServerTime' THEN GetDate([clock |-> clock'])
                                    ELSE UTCDate([clock |-> clock'])
     /\ (~useServerTime /\ ret'.nroll > 0) =>
          (currentFile # NoFile /\ date # UTCDate(Cur))]_vars

\* C25: while the logger is started with rollover enabled, by the constructor
\* or by setRollover, and the date of the day is not the tracked date, the
\* rollover check eventually runs (the tracked date becomes the date of the
\* day, the file switched), the timers being fair and no log() call being
\* needed, unless the logger is stopped, rollover is disabled or the process
\* exits.
C25_RolloverEventually ==
  (isStarted /\ rolloverEnabled /\ date # GetDate(Cur))
    ~> (date = GetDate(Cur) \/ ~isStarted \/ ~rolloverEnabled
          \/ exitCode # Running)

\* C26: when a write attempted during a log() or a stop() call has failed,
\* the call has returned false: a true return of log() or stop() means that
\* every write the call attempted was made.
C26_FailedWriteReturnsFalse ==
  (ret.op \in {"log", "stop"} /\ ret.wfail) => (~ret.res /\ ~ret.threw)

\* C27: stop() on a started logger whose file exists flushes before it
\* seals: when it returns true the file holds what it held, then the entries
\* that were in the buffer, then the end banner, the buffer is empty and every
\* accepted entry has been appended to a file.
C27_StopFlushesBeforeSealing ==
  (isStarted /\ DirExistsSync(Cur, dir) /\ File(Cur) \in DOMAIN files) =>
    \A t \in Stop(Cur) :
      t.res =>
        /\ Content(t.files, File(Cur))
             = Content(files, File(Cur)) \o logs \o <<EndBanner>>
        /\ t.logs = <<>>
        /\ accepted \subseteq t.written

\* C28: log() on a logger that is not started starts it first: when a log()
\* call has returned true, the logger is started, its current file name is
\* not empty and its flush timer is armed.
C28_LogStartsTheLogger ==
  (ret.op = "log" /\ ret.res /\ ~ret.threw) =>
    (isStarted /\ currentFile # NoFile /\ pushInterval)

\* C29: in every reachable state the buffer holds exactly the accepted
\* entries that have not been appended to any file, each of them once, and no
\* entry is in the files more than once: a flush removes from the buffer the
\* entries it appended and no others.
C29_NothingWrittenTwice ==
  /\ EntryIds(logs) = accepted \ written
  /\ \A i, j \in DOMAIN logs : logs[i].id = logs[j].id => i = j
  /\ \A i \in DOMAIN logs : logs[i] \notin OnDisk(files)
  /\ \A p, q \in DOMAIN files :
       \A i \in DOMAIN files[p], j \in DOMAIN files[q] :
         (/\ files[p][i].kind = "entry" /\ files[q][j].kind = "entry"
          /\ files[p][i].id = files[q][j].id) => (p = q /\ i = j)

\* two flushes of the timer, each of one entry: the file holds the two
\* entries after its start banner and the buffer is empty
C29_Witness ==
  /\ ret.op = "flushTimer" /\ ~ret.wfail
  /\ logs = <<>> /\ Cardinality(written) = 2
  /\ Len(Content(files, File(Cur))) = 3
  /\ files[File(Cur)][2].kind = "entry" /\ files[File(Cur)][3].kind = "entry"
  /\ files[File(Cur)][2].id # files[File(Cur)][3].id

\* the calls of the entry lines of a sequence, in its order
Ids(seq) ==
  LET e == SelectSeq(seq, LAMBDA x : x.kind = "entry")
  IN [i \in DOMAIN e |-> e[i].id]

Increasing(ids) == \A i, j \in DOMAIN ids : i < j => ids[i] < ids[j]

\* C30: the entries reach the disk in the order of their calls: in the buffer
\* and in each file the entries are in call order, a step appends only
\* entries of calls made after the calls of every entry appended before, and
\* when a step has switched files, all its writes made, every entry of the
\* file the rollover opened is of a later call than every entry of every
\* other file, the sealed ones among them.
C30_WrittenInCallOrder ==
  [][/\ Increasing(Ids(logs'))
     /\ \A p \in DOMAIN files' : Increasing(Ids(files'[p]))
     /\ \A new \in written' \ written : \A old \in written : old < new
     /\ (ret'.nroll > 0 /\ ~ret'.wfail) =>
          LET opened == [dir |-> dir', name |-> currentFile'] IN
          \A new \in EntryIds(Content(files', opened)) :
            \A p \in DOMAIN files' \ {opened} :
              \A old \in EntryIds(files'[p]) : old < new]_vars

\* a rollover between two flushed entries: the sealed file holds the first
\* entry, the file the rollover opened holds the second
C30_Witness ==
  /\ previousFile # NoFile /\ previousFile # currentFile
  /\ EntryIds(Content(files, Sealed)) = {1}
  /\ EntryIds(Content(files, File(Cur))) = {2}
  /\ logs = <<>>

\* C31: when log() returns true for an entry it accepted and no write has
\* failed, the buffer holds fewer than BUFFER_SIZE entries and fewer than
\* maxBufferSize estimated bytes, and if BUFFER_TIMEOUT ms had passed since
\* the last flush the call has flushed the buffer, its own entry included.
C31_EagerFlushAtTheCaps ==
  [][(/\ ret'.op = "log" /\ ret'.res /\ ~ret'.wfail
      /\ calls' \in accepted') =>
       /\ Len(logs') < BUFFER_SIZE
       /\ bufferSize' < maxBufferSize
       /\ sinceFlush >= BUFFER_TIMEOUT =>
            (logs' = <<>> /\ calls' \in written')]_vars

\* the call that brings the buffer to BUFFER_SIZE entries, well under the cap
\* of bytes and within the flush interval, has written them all
C31_Witness ==
  /\ ret.op = "log" /\ ret.res /\ ~ret.wfail
  /\ calls = BUFFER_SIZE /\ accepted = 1 .. BUFFER_SIZE
  /\ written = accepted /\ logs = <<>> /\ bufferSize = 0
  /\ ret.nroll = 0

\* the flush has made no write but the one that failed, has thrown nothing
\* and has left the buffer b, its byte estimate and the time since the last
\* flush as they were
Unflushed(t, b) ==
  t.wfail =>
    /\ ~t.threw
    /\ t.nwrite = 1
    /\ t.logs = b.logs
    /\ t.bufferSize = b.bufferSize
    /\ t.sinceFlush = b.sinceFlush

\* C32: a flush whose write fails (the flush of the timer, flushSync(), the
\* eager flush of addToLogs) throws nothing, leaves the buffer, the byte
\* estimate and the last-flush timestamp as they were when the flush began,
\* and has attempted one write only.
C32_FailedFlushKeepsTheBuffer ==
  [](/\ \A t \in PushLogs(Cur) \cup FlushSync(Cur) : Unflushed(t, Cur)
     /\ \A line \in {Entry(Cur, DefaultArgs[1].v, CRITICAL)} :
          \A t \in AddToLogs(Cur, line) :
            Unflushed(t, [logs |-> Append(logs, line),
                          bufferSize |-> bufferSize + LineLength(line),
                          sinceFlush |-> sinceFlush]))

\* the timer's flush has failed: the entry is still in the buffer and in no
\* file, and the process runs
C32_Witness ==
  /\ ret.op = "flushTimer" /\ ret.wfail /\ ~ret.threw
  /\ exitCode = Running
  /\ Len(logs) = 1 /\ bufferSize = LineLength(logs[1])
  /\ written = {} /\ disk = "down"

\* C33 as stated: a log() call below the threshold leaves the buffer, the
\* byte estimate and the last-flush timestamp as they were, writes no entry,
\* makes the rollover check and returns true.
C33_FilteredCallLeavesTheBuffer ==
  [][(ret'.op = "log" /\ ret'.level < logLevel) =>
       /\ logs' = logs /\ bufferSize' = bufferSize
       /\ sinceFlush' = sinceFlush
       /\ written' = written
       /\ date' = GetDate(Cur)
       /\ ret'.res]_vars

\* C33, amended: a log() call below the threshold buffers and writes no entry
\* of its own; it returns true unless a write has failed; when no write has
\* failed it has made the rollover check, the tracked date being the date of
\* the call; when the check has not switched files the buffer, the byte
\* estimate, the last-flush timestamp and the entries on disk are as they
\* were; when it has switched files, all writes made, it has flushed the
\* entries of the earlier calls and nothing else.
C33_FilteredCallAddsNothing ==
  [][(ret'.op = "log" /\ ret'.level < logLevel) =>
       /\ accepted' = accepted
       /\ calls' \notin written'
       /\ ~ret'.threw
       /\ ~ret'.wfail => (ret'.res /\ date' = GetDate(Cur))
       /\ ret'.nroll = 0 =>
            /\ logs' = logs /\ bufferSize' = bufferSize
            /\ sinceFlush' = sinceFlush
            /\ written' = written
       /\ (ret'.nroll > 0 /\ ~ret'.wfail) =>
            /\ logs' = <<>> /\ bufferSize' = 0
            /\ written' = written \cup Range(Ids(logs))]_vars

\* a call below the threshold on the day after the buffered entries were
\* accepted: the rollover in the call has flushed them to the file it opened
C33_Witness ==
  /\ ret.op = "log" /\ ret.level < logLevel /\ ret.res /\ ~ret.wfail
  /\ ret.nroll = 1 /\ date = GetDate(Cur)
  /\ calls = BUFFER_SIZE /\ calls \notin accepted
  /\ logs = <<>> /\ written = 1 .. (BUFFER_SIZE - 1)
  /\ EntryIds(Content(files, File(Cur))) = written

\* C34: in every reachable state a started logger has a current file name
\* that is not empty.
C34_StartedHasAFile == isStarted => currentFile # NoFile

\* the file name that is current when the rollover check of a step is made:
\* the current one, or the one the lazy start() of the step gives a logger
\* that has none
NameBeforeTheCheck ==
  IF currentFile # NoFile THEN currentFile
  ELSE Replace(fileFormat, IF useServerTime THEN GetDate(Cur) ELSE UTCDate(Cur))

\* C35: previousFile changes only in a step whose rollover switches files,
\* and that step sets it to the file name that was current just before the
\* switch; start(), stop(), a log() that does not switch, the flushes and the
\* setters leave it as it was.
C35_PreviousFileOnlyAtTheSwitch ==
  [][/\ previousFile' # previousFile => ret'.nroll > 0
     /\ ret'.nroll > 0 => previousFile' = NameBeforeTheCheck
     /\ ret'.op \in {"start", "stop", "flushSync", "flushTimer", "setLogLevel",
                     "setLogDir", "setFileFormat", "setRollover",
                     "setUseServerTime", "clock", "elapse"} =>
          previousFile' = previousFile]_vars

\* the rollover of a log() call on the second day: previousFile names the
\* file of the first day, which is on disk, and the current file is the one
\* of the second day
C35_Witness ==
  /\ ret.op = "log" /\ ret.nroll = 1 /\ ~ret.wfail /\ date = 2
  /\ previousFile = Replace(DefaultFormat, 1)
  /\ currentFile = Replace(DefaultFormat, 2)
  /\ [dir |-> dir, name |-> previousFile] \in DOMAIN files

\* C36: in every reachable state the timers agree with the started flag: the
\* flush timer is armed exactly when the logger is started, and no timer is
\* armed on a logger that is not started, so that start(), which arms the
\* timers only of a logger that is not started, never arms one over another.
C36_TimersAgreeWithStarted ==
  /\ isStarted <=> pushInterval
  /\ rolloverInterval => isStarted

\* C37: a rollover check on a logger that has a current file, in which a
\* write of a banner fails, leaves the tracked date, the current file and the previous file as they were before
\* the check, so that the next check on that date makes the rollover.
C37_FailedRolloverIsRetried ==
  \A t \in RollOver(Cur) :
    (currentFile # NoFile /\ t.threw) =>
      /\ t.date = date
      /\ t.currentFile = currentFile
      /\ t.previousFile = previousFile

\* C38: a callback of the flush timer or of the rollover timer lets no
\* exception escape: after it the process runs, the uncaughtException
\* handler has not ended it.
C38_TimerCallbacksCatch ==
  ret.op \in {"flushTimer", "rolloverTimer"} => exitCode = Running

\* C39: whatever start() and stop() calls are made on the logger, it has at
\* most one handler registered for each process event (exit, SIGINT,
\* SIGTERM, uncaughtException).
C39_OneHandlerPerEvent == handlers <= 1

\* the sum of the lengths of the lines of a buffer
RECURSIVE TotalLength(_)
TotalLength(seq) ==
  IF seq = <<>> THEN 0
  ELSE IF Len(seq) = 1 THEN LineLength(seq[1])
  ELSE LET h == Len(seq) \div 2
       IN TotalLength(SubSeq(seq, 1, h)) + TotalLength(SubSeq(seq, h + 1, Len(seq)))

\* C40: in every reachable state the byte estimate is the sum of the lengths
\* of the lines in the buffer, and so 0 exactly when the buffer holds no
\* character.
C40_ByteEstimateIsTheSum ==
  [](/\ bufferSize = TotalLength(logs)
     /\ bufferSize = 0 <=> \A i \in DOMAIN logs : LineLength(logs[i]) = 0)

\* an entry buffered after a flush: the estimate was reset by the flush and
\* counts the new line only
C40_Witness ==
  /\ ret.op = "log" /\ ret.res
  /\ written # {} /\ Len(logs) = 1 /\ logs[1].id \notin written
  /\ bufferSize = LineLength(logs[1]) /\ bufferSize > 0

====
